---- MODULE Spec2Model ----
(***************************************************************************)
(* wl_log: a logging library for embedded targets (src/src/wl_log.c).      *)
(*                                                                         *)
(* Text is modelled as a sequence of characters, each character a string   *)
(* token ("a", "[", "\n"; ESC for 0x1b).  A C string is the sequence of    *)
(* its characters before the terminating NUL.                              *)
(***************************************************************************)
EXTENDS Integers, Sequences, FiniteSets, TLC

(* ------------------------------------------------------------------ *)
(* Program constants                                                    *)
(* ------------------------------------------------------------------ *)

MAX_EXCLUDED_TAGS == 10
MAX_TAG_LENGTH == 20
MAX_LOG_LEVEL_TAGS == 10

WL_LOG_NONE == 0
WL_LOG_ERROR == 1
WL_LOG_WARN == 2
WL_LOG_INFO == 3
WL_LOG_DEBUG == 4
WL_LOG_VERBOSE == 5

\* static wl_log_level_t global_log_level = WL_LOG_VERBOSE; never assigned again
global_log_level == WL_LOG_VERBOSE

\* sizes of the working buffers of the formatter
LOCAL_BUFFER_SIZE == 256
FINAL_MESSAGE_SIZE == 512
HEADER_SIZE == 128

(* ------------------------------------------------------------------ *)
(* Bounds of the model                                                  *)
(* ------------------------------------------------------------------ *)

\* WL_LOG_BUFFER_SIZE is a build-time setting (default 1024); the model
\* builds the library with a small ring buffer.
WL_LOG_BUFFER_SIZE == 4
\* longest message handed to log_output in the ring-buffer specification
MaxMsgLen == 4
\* most bytes that follow the single character &ch before a NUL is met
MaxGarbage == 1
\* most stored copies of one truncated (>= MAX_TAG_LENGTH characters) tag
MaxTruncated == 1
\* tags already registered by the host's start-up code in the "busy" start
Prefilled == 9

(* ------------------------------------------------------------------ *)
(* C strings                                                            *)
(* ------------------------------------------------------------------ *)

NUL == "NUL"
ESC == "ESC"

Min(a, b) == IF a < b THEN a ELSE b

Take(s, n) == SubSeq(s, 1, Min(Len(s), n))

Drop(s, n) == SubSeq(s, Min(Len(s), n) + 1, Len(s))

\* strncmp(s1, s2, n): 0 when the strings agree over their first n characters
\* (both end before n at the same place, or agree up to n), nonzero (1) otherwise
strncmp(s1, s2, n) == IF Take(s1, n) = Take(s2, n) THEN 0 ELSE 1

\* strncpy with the length one short: n - 2 characters kept
strncpy_one_short(src, n) == Take(src, n - 2)

\* strncpy(dst, src, n - 1); dst[n - 1] = '\0': dst holds at most n - 1 characters
strncpy_terminated(src, n) == Take(src, n - 1)

\* snprintf(buf, size, ...): the rendered text cut to size - 1 characters
snprintf(size, text) == Take(text, size - 1)

(* ------------------------------------------------------------------ *)
(* Inputs                                                               *)
(* ------------------------------------------------------------------ *)

NET == <<"n", "e", "t">>
\* a tag of exactly MAX_TAG_LENGTH characters, and its first 19 characters
LONG_TAG == <<"s", "e", "n", "s", "o", "r", "_", "t", "e", "m",
              "p", "e", "r", "a", "t", "u", "r", "e", "_", "0">>
SHORT19 == SubSeq(LONG_TAG, 1, 19)

TagList == <<NET, SHORT19, LONG_TAG>>

Tags == {TagList[n] : n \in 1 .. Len(TagList)}

\* the place of tag in TagList
TagNumber(tag) == CHOOSE n \in 1 .. Len(TagList) : TagList[n] = tag

\* severities handed to set_level and to the log calls
Levels == {WL_LOG_NONE, WL_LOG_WARN, WL_LOG_VERBOSE}
Severities == {WL_LOG_WARN, WL_LOG_INFO}

\* get_millis() readings
Millis == {12}

\* message bodies as vsnprintf rendered them
Bodies == {<<"x">>}

\* byte buffers handed to wl_log_buffer_hex and wl_log_dump
Buffers == {<<171, 205>>}

Digits == <<"0", "1", "2", "3", "4", "5", "6", "7", "8", "9">>

\* the tags the host's start-up code registers: "f0", "f1", ...
FillerTag(i) == <<"f", Digits[i + 1]>>

(* ------------------------------------------------------------------ *)
(* Build configurations                                                 *)
(* ------------------------------------------------------------------ *)

\* uart: WL_LOG_USE_UART; stdout: the value of stdout_available() on the
\* platform; overwrite: WL_LOG_BUFFER_OVERWRITE; colors: WL_LOG_USE_COLORS
Configurations ==
    { [uart |-> FALSE, stdout |-> TRUE,  overwrite |-> FALSE, colors |-> TRUE],
      [uart |-> TRUE,  stdout |-> FALSE, overwrite |-> TRUE,  colors |-> FALSE],
      [uart |-> FALSE, stdout |-> FALSE, overwrite |-> FALSE, colors |-> FALSE],
      [uart |-> FALSE, stdout |-> FALSE, overwrite |-> TRUE,  colors |-> FALSE] }

(* ------------------------------------------------------------------ *)
(* State                                                                *)
(* ------------------------------------------------------------------ *)

VARIABLES
    cfg,            \* the build configuration (fixed)
    excluded_tags,  \* excluded_tags[1 .. excluded_tag_count]
    log_levels,     \* log_levels[1 .. log_levels_count], records (tag, level)
    log_buffer,     \* the ring buffer: data (indexed 0 .. size - 1), head, tail
    log_lock,       \* the guard: 0 free, 1 held
    pc,             \* "idle", or "flush" inside wl_log_process_buffer
    call,           \* the most recent call and its arguments
    sink,           \* characters the most recent call wrote to stdout / UART through log_output
    stored,         \* characters the most recent step wrote into log_buffer.data
    diag,           \* the diagnostic the most recent call printed ("" for none)
    exclude_request,\* per tag (by its number in TagList), how its latest exclude_tag
                    \* call found the table ("armed" or "refused"), "none" before
                    \* one and after include_tag; recorded by SpecHistory only
    thread,         \* per calling thread, where it is inside the library and the
                    \* locals of its call; used by SpecThreads only
    emitted         \* the log_output calls the threads made, in order, each with
                    \* the thread and the call that made it; SpecThreads only

vars == <<cfg, excluded_tags, log_levels, log_buffer, log_lock, pc, call, sink, stored, diag,
          exclude_request, thread, emitted>>

\* the calling threads
Threads == {1, 2}

\* a thread outside the library, n calls behind it
Outside(n) ==
    [pc |-> "idle", op |-> "none", tag |-> <<>>, level |-> 0, i |-> 0, todo |-> <<>>,
     covered |-> FALSE, calls |-> n]

excluded_tag_count == Len(excluded_tags)
log_levels_count == Len(log_levels)

NoDiag == ""
TagListFull == "Error: Tag list is full."
TagNotFound == "Error: Tag not found in excluded list"
LevelsListFull == "Error: Log levels list is full"

(* ------------------------------------------------------------------ *)
(* Tag registry                                                         *)
(* ------------------------------------------------------------------ *)

\* index of the first entry of tags (a sequence of strings) that strncmp finds
\* equal to tag over MAX_TAG_LENGTH characters, scanning from i; 0 when none
RECURSIVE find_tag(_, _, _)
find_tag(tags, tag, i) ==
    IF i > Len(tags) THEN 0
    ELSE IF strncmp(tags[i], tag, MAX_TAG_LENGTH) = 0 THEN i
    ELSE find_tag(tags, tag, i + 1)

level_tags(levels) == [i \in 1 .. Len(levels) |-> levels[i].tag]

\* is_tag_excluded with the scan stopping one entry early (i < count - 1)
is_tag_excluded_in_but_last(tags, tag) ==
    IF find_tag(SubSeq(tags, 1, Len(tags) - 1), tag, 1) # 0 THEN 1 ELSE 0

is_tag_excluded_in(tags, tag) ==
    IF find_tag(tags, tag, 1) # 0 THEN 1 ELSE 0

is_tag_excluded(tag) == is_tag_excluded_in(excluded_tags, tag)

get_tag_level_in(levels, tag) ==
    LET i == find_tag(level_tags(levels), tag, 1)
    IN  IF i # 0 THEN levels[i].level ELSE global_log_level

get_tag_level(tag) == get_tag_level_in(log_levels, tag)

\* wl_log_exclude_tag without the scan for an entry that is already there
exclude_tag_unchecked(tags, tag) ==
    IF Len(tags) < MAX_EXCLUDED_TAGS
    THEN [tags |-> Append(tags, strncpy_terminated(tag, MAX_TAG_LENGTH)), diag |-> NoDiag]
    ELSE [tags |-> tags, diag |-> TagListFull]

\* wl_log_exclude_tag with the capacity test off by one (<= for <)
exclude_tag_one_more(tags, tag) ==
    IF Len(tags) <= MAX_EXCLUDED_TAGS
    THEN IF find_tag(tags, tag, 1) # 0
         THEN [tags |-> tags, diag |-> NoDiag]
         ELSE [tags |-> Append(tags, strncpy_terminated(tag, MAX_TAG_LENGTH)),
               diag |-> NoDiag]
    ELSE [tags |-> tags, diag |-> TagListFull]

\* wl_log_exclude_tag on the table tags: the table and the diagnostic it leaves
exclude_tag(tags, tag) ==
    IF Len(tags) < MAX_EXCLUDED_TAGS
    THEN IF find_tag(tags, tag, 1) # 0
         THEN [tags |-> tags, diag |-> NoDiag]
         ELSE [tags |-> Append(tags, strncpy_terminated(tag, MAX_TAG_LENGTH)),
               diag |-> NoDiag]
    ELSE [tags |-> tags, diag |-> TagListFull]

\* wl_log_include_tag with the shift left out: excluded_tag_count-- alone,
\* which drops the last entry whichever entry matched
include_tag_drop_last(tags, tag) ==
    IF find_tag(tags, tag, 1) # 0
    THEN [tags |-> SubSeq(tags, 1, Len(tags) - 1), diag |-> NoDiag]
    ELSE [tags |-> tags, diag |-> TagNotFound]

\* wl_log_include_tag: entries after the first match move down by one
include_tag(tags, tag) ==
    LET i == find_tag(tags, tag, 1)
    IN  IF i # 0
        THEN [tags |-> SubSeq(tags, 1, i - 1) \o SubSeq(tags, i + 1, Len(tags)),
              diag |-> NoDiag]
        ELSE [tags |-> tags, diag |-> TagNotFound]

\* wl_log_set_level returning at a found entry without assigning its level
set_level_first_write_wins(levels, tag, level) ==
    LET i == find_tag(level_tags(levels), tag, 1)
    IN  IF i # 0
        THEN [levels |-> levels, diag |-> NoDiag]
        ELSE IF Len(levels) < MAX_LOG_LEVEL_TAGS
        THEN [levels |-> Append(levels,
                           [tag |-> strncpy_terminated(tag, MAX_TAG_LENGTH),
                            level |-> level]),
              diag |-> NoDiag]
        ELSE [levels |-> levels, diag |-> LevelsListFull]

\* wl_log_set_level on the table levels
set_level(levels, tag, level) ==
    LET i == find_tag(level_tags(levels), tag, 1)
    IN  IF i # 0
        THEN [levels |-> [levels EXCEPT ![i].level = level], diag |-> NoDiag]
        ELSE IF Len(levels) < MAX_LOG_LEVEL_TAGS
        THEN [levels |-> Append(levels,
                           [tag |-> strncpy_terminated(tag, MAX_TAG_LENGTH),
                            level |-> level]),
              diag |-> NoDiag]
        ELSE [levels |-> levels, diag |-> LevelsListFull]

(* ------------------------------------------------------------------ *)
(* Formatter                                                            *)
(* ------------------------------------------------------------------ *)

\* "%u"
RECURSIVE Dec(_)
Dec(n) == IF n < 10 THEN <<Digits[n + 1]>> ELSE Dec(n \div 10) \o <<Digits[(n % 10) + 1]>>

HexDigits == <<"0", "1", "2", "3", "4", "5", "6", "7", "8", "9", "A", "B", "C", "D", "E", "F">>

RECURSIVE HexUpper(_)
HexUpper(n) == IF n < 16 THEN <<HexDigits[n + 1]>> ELSE HexUpper(n \div 16) \o <<HexDigits[(n % 16) + 1]>>

RECURSIVE ZeroPad(_, _)
ZeroPad(text, width) == IF Len(text) >= width THEN text ELSE ZeroPad(<<"0">> \o text, width)

\* "%X": the digits without the zero padding to the width
HexUnpadded(n, width) == HexUpper(n)

\* "%02X" and "%04X"
Hex(n, width) == ZeroPad(HexUpper(n), width)

level_str(level) ==
    CASE level = WL_LOG_ERROR   -> <<"E", "R", "R", "O", "R">>
      [] level = WL_LOG_WARN    -> <<"W", "A", "R", "N">>
      [] level = WL_LOG_INFO    -> <<"I", "N", "F", "O">>
      [] level = WL_LOG_DEBUG   -> <<"D", "E", "B", "U", "G">>
      [] level = WL_LOG_VERBOSE -> <<"V", "E", "R", "B", "O", "S", "E">>
      [] OTHER                  -> <<"U", "N", "K", "N", "O", "W", "N">>

ansi(code) == IF cfg.colors THEN <<ESC, "[">> \o code \o <<"m">> ELSE <<>>

color_code(level) ==
    CASE level = WL_LOG_ERROR   -> ansi(<<"3", "1">>)
      [] level = WL_LOG_WARN    -> ansi(<<"3", "3">>)
      [] level = WL_LOG_INFO    -> ansi(<<"3", "2">>)
      [] level = WL_LOG_DEBUG   -> ansi(<<"3", "4">>)
      [] OTHER                  -> ansi(<<"3", "7">>)

ANSI_COLOR_RESET == ansi(<<"0">>)

\* final_message of wl_log_print: "%s(%u)[%s][%s]: %s%s\n"
final_message(level, tag, body, millis) ==
    snprintf(FINAL_MESSAGE_SIZE,
             color_code(level) \o <<"(">> \o Dec(millis) \o <<")", "[">> \o level_str(level)
             \o <<"]", "[">> \o tag \o <<"]", ":", " ">>
             \o snprintf(LOCAL_BUFFER_SIZE, body) \o ANSI_COLOR_RESET \o <<"\n">>)

\* the messages wl_log_print hands to log_output, in order
print_messages(level, tag, body, millis) == <<final_message(level, tag, body, millis)>>

\* "(%u)[HEX][%s]: "
hex_header(tag, millis) ==
    snprintf(HEADER_SIZE,
             <<"(">> \o Dec(millis) \o <<")", "[", "H", "E", "X", "]", "[">> \o tag
             \o <<"]", ":", " ">>)

\* "%02X "
hex_line(byte) == Hex(byte, 2) \o <<" ">>

\* the messages wl_log_buffer_hex hands to log_output, in order
hex_messages(tag, buffer, millis) ==
    <<hex_header(tag, millis)>>
    \o [i \in 1 .. Len(buffer) |-> hex_line(buffer[i])]
    \o << <<"\n">> >>

\* "(%u)[DUMP][%s]:\n"
dump_header(tag, millis) ==
    snprintf(HEADER_SIZE,
             <<"(">> \o Dec(millis) \o <<")", "[", "D", "U", "M", "P", "]", "[">> \o tag
             \o <<"]", ":", "\n">>)

\* "\n%04X: " with the offset i (0-based)
dump_label(i) == <<"\n">> \o Hex(i, 4) \o <<":", " ">>

RECURSIVE dump_lines(_, _)
dump_lines(buffer, i) ==
    IF i >= Len(buffer) THEN <<>>
    ELSE (IF i % 16 = 0 THEN <<dump_label(i)>> ELSE <<>>)
         \o <<hex_line(buffer[i + 1])>>
         \o dump_lines(buffer, i + 1)

\* the messages wl_log_dump hands to log_output, in order
dump_messages(tag, buffer, millis) ==
    <<dump_header(tag, millis)>> \o dump_lines(buffer, 0) \o << <<"\n">> >>

(* ------------------------------------------------------------------ *)
(* Output path and ring buffer                                          *)
(* ------------------------------------------------------------------ *)

EmptyBuffer == [data |-> [i \in 0 .. WL_LOG_BUFFER_SIZE - 1 |-> NUL], head |-> 0, tail |-> 0]

stdout_available == cfg.stdout

\* the for loop of log_output from character i (1-based) of message on, the
\* ring buffer holding data, head and tail: the buffer at loop exit and the
\* number of characters written into it (i - 1: every iteration that does
\* not break writes message[i])
RECURSIVE enqueue(_, _, _, _, _)
enqueue(data, head, tail, message, i) ==
    IF i > Len(message)
    THEN [buffer |-> [data |-> data, head |-> head, tail |-> tail], written |-> i - 1]
    ELSE LET next_head == (head + 1) % WL_LOG_BUFFER_SIZE
         IN  IF next_head # tail
             THEN enqueue([data EXCEPT ![head] = message[i]], next_head, tail, message, i + 1)
             ELSE IF cfg.overwrite
             THEN enqueue([data EXCEPT ![head] = message[i]], next_head,
                          (tail + 1) % WL_LOG_BUFFER_SIZE, message, i + 1)
             ELSE [buffer |-> [data |-> data, head |-> head, tail |-> tail],
                   written |-> i - 1]

\* a log_output that writes every message to the synchronous sink and into
\* the ring buffer as well, whatever the build
log_output_tee(buf, message) ==
    LET out == enqueue(buf.data, buf.head, buf.tail, message, 1)
    IN  [buffer |-> out.buffer, sink |-> message, stored |-> Take(message, out.written)]

\* log_output(message) on the ring buffer buf: the buffer afterwards, the
\* characters written to the synchronous sink and those stored in the buffer
log_output(buf, message) ==
    IF cfg.uart
    THEN [buffer |-> buf, sink |-> message, stored |-> <<>>]
    ELSE IF stdout_available
    THEN [buffer |-> buf, sink |-> message, stored |-> <<>>]
    ELSE LET out == enqueue(buf.data, buf.head, buf.tail, message, 1)
         IN  [buffer |-> out.buffer, sink |-> <<>>, stored |-> Take(message, out.written)]

\* what the log_output calls so far (acc) and one more (r) leave together
after_output(acc, r) ==
    [buffer |-> r.buffer, sink |-> acc.sink \o r.sink, stored |-> acc.stored \o r.stored]

\* successive log_output calls, one per message, from message i on
RECURSIVE log_output_all(_, _, _)
log_output_all(acc, messages, i) ==
    IF i > Len(messages) THEN acc
    ELSE log_output_all(after_output(acc, log_output(acc.buffer, messages[i])),
                        messages, i + 1)

(* ------------------------------------------------------------------ *)
(* Operations                                                           *)
(* ------------------------------------------------------------------ *)

Call(op, tag, level, millis, text) ==
    [op |-> op, tag |-> tag, level |-> level, millis |-> millis, text |-> text]

\* the filter with >= for >: a message at exactly the tag's level is dropped
filtered_out_at_level(level, tag) ==
    level >= get_tag_level(tag) \/ is_tag_excluded(tag) # 0

\* the filter with the override ahead of the exclusion: a tag with an entry
\* in log_levels is judged by its level alone
filtered_out_override_wins(level, tag) ==
    \/ level > get_tag_level(tag)
    \/ /\ is_tag_excluded(tag) # 0
       /\ \A i \in 1 .. log_levels_count :
              strncmp(log_levels[i].tag, tag, MAX_TAG_LENGTH) # 0

\* the test wl_log_print, wl_log_buffer_hex and wl_log_dump make before locking
filtered_out(level, tag) ==
    level > get_tag_level(tag) \/ is_tag_excluded(tag) # 0

\* the shared shape of the three log functions: return when filtered out,
\* otherwise LOG_MUTEX_LOCK, the log_output calls, LOG_MUTEX_UNLOCK
emit(level, tag, messages) ==
    IF filtered_out(level, tag)
    THEN /\ sink' = <<>>
         /\ stored' = <<>>
         /\ UNCHANGED <<log_buffer, log_lock>>
    ELSE /\ log_lock = 0
         /\ \E r \in {log_output_all([buffer |-> log_buffer, sink |-> <<>>, stored |-> <<>>],
                                      messages, 1)} :
              /\ log_buffer' = r.buffer
              /\ sink' = r.sink
              /\ stored' = r.stored
         /\ log_lock' = 0

wl_log_print(level, tag, body, millis) ==
    /\ pc = "idle"
    /\ call' = Call("log", tag, level, millis, body)
    /\ emit(level, tag, print_messages(level, tag, body, millis))
    /\ diag' = NoDiag
    /\ UNCHANGED <<cfg, excluded_tags, log_levels, pc, exclude_request, thread, emitted>>

wl_log_buffer_hex(level, tag, buffer, millis) ==
    /\ pc = "idle"
    /\ call' = Call("log_hex", tag, level, millis, buffer)
    /\ emit(level, tag, hex_messages(tag, buffer, millis))
    /\ diag' = NoDiag
    /\ UNCHANGED <<cfg, excluded_tags, log_levels, pc, exclude_request, thread, emitted>>

wl_log_dump(level, tag, buffer, millis) ==
    /\ pc = "idle"
    /\ call' = Call("log_dump", tag, level, millis, buffer)
    /\ emit(level, tag, dump_messages(tag, buffer, millis))
    /\ diag' = NoDiag
    /\ UNCHANGED <<cfg, excluded_tags, log_levels, pc, exclude_request, thread, emitted>>

wl_log_exclude_tag(tag) ==
    /\ pc = "idle"
    /\ log_lock = 0
    /\ call' = Call("exclude_tag", tag, WL_LOG_NONE, 0, <<>>)
    /\ \E r \in {exclude_tag(excluded_tags, tag)} :
           /\ excluded_tags' = r.tags
           /\ diag' = r.diag
    /\ sink' = <<>>
    /\ stored' = <<>>
    /\ log_lock' = 0
    /\ UNCHANGED <<cfg, log_levels, log_buffer, pc>>

wl_log_include_tag(tag) ==
    /\ pc = "idle"
    /\ log_lock = 0
    /\ call' = Call("include_tag", tag, WL_LOG_NONE, 0, <<>>)
    /\ \E r \in {include_tag(excluded_tags, tag)} :
           /\ excluded_tags' = r.tags
           /\ diag' = r.diag
    /\ sink' = <<>>
    /\ stored' = <<>>
    /\ log_lock' = 0
    /\ UNCHANGED <<cfg, log_levels, log_buffer, pc>>

wl_log_set_level(tag, level) ==
    /\ pc = "idle"
    /\ log_lock = 0
    /\ call' = Call("set_level", tag, level, 0, <<>>)
    /\ \E r \in {set_level(log_levels, tag, level)} :
           /\ log_levels' = r.levels
           /\ diag' = r.diag
    /\ sink' = <<>>
    /\ stored' = <<>>
    /\ log_lock' = 0
    /\ UNCHANGED <<cfg, excluded_tags, log_buffer, pc, exclude_request, thread, emitted>>

\* wl_log_process_buffer, entry: LOG_MUTEX_LOCK
process_buffer_enter ==
    /\ pc = "idle"
    /\ log_lock = 0
    /\ log_lock' = 1
    /\ pc' = "flush"
    /\ call' = Call("flush_buffer", <<>>, WL_LOG_NONE, 0, <<>>)
    /\ sink' = <<>>
    /\ stored' = <<>>
    /\ diag' = NoDiag
    /\ UNCHANGED <<cfg, excluded_tags, log_levels, log_buffer, exclude_request, thread, emitted>>

\* what strlen and "%s" read at &ch, the address of one char that no NUL
\* follows: ch, then whatever the stack holds up to its next zero byte
StackGarbage == {[i \in 1 .. n |-> "?"] : n \in 0 .. MaxGarbage}

string_at_ch(ch, garbage) == <<ch>> \o garbage

\* one iteration of the while loop of wl_log_process_buffer
process_buffer_loop ==
    /\ pc = "flush"
    /\ log_buffer.tail # log_buffer.head
    /\ \E garbage \in StackGarbage :
         \E r \in {log_output(log_buffer,
                               string_at_ch(log_buffer.data[log_buffer.tail], garbage))} :
             /\ log_buffer' = [r.buffer EXCEPT !.tail = (r.buffer.tail + 1) % WL_LOG_BUFFER_SIZE]
             /\ sink' = sink \o r.sink
             /\ stored' = r.stored
    /\ UNCHANGED <<cfg, excluded_tags, log_levels, log_lock, pc, call, diag, exclude_request, thread, emitted>>

\* wl_log_process_buffer, loop exit: LOG_MUTEX_UNLOCK and return
process_buffer_return ==
    /\ pc = "flush"
    /\ log_buffer.tail = log_buffer.head
    /\ log_lock' = 0
    /\ pc' = "idle"
    /\ stored' = <<>>
    /\ UNCHANGED <<cfg, excluded_tags, log_levels, log_buffer, call, sink, diag, exclude_request, thread, emitted>>

\* log_output called with message under the guard, as the log functions call it
output(message) ==
    /\ pc = "idle"
    /\ log_lock = 0
    /\ call' = Call("log_output", <<>>, WL_LOG_NONE, 0, message)
    /\ \E r \in {log_output(log_buffer, message)} :
           /\ log_buffer' = r.buffer
           /\ sink' = r.sink
           /\ stored' = r.stored
    /\ diag' = NoDiag
    /\ log_lock' = 0
    /\ UNCHANGED <<cfg, excluded_tags, log_levels, pc, exclude_request, thread, emitted>>

(* ------------------------------------------------------------------ *)
(* Specifications                                                       *)
(* ------------------------------------------------------------------ *)

\* the tables as the host's start-up code leaves them: empty, or with the
\* first n filler tags excluded and given an override
Fillers(n) == [i \in 1 .. n |-> FillerTag(i - 1)]

FillerLevels(n) == [i \in 1 .. n |-> [tag |-> FillerTag(i - 1), level |-> WL_LOG_INFO]]

Init ==
    /\ cfg \in Configurations
    /\ \E n \in {0, Prefilled} :
         /\ excluded_tags = Fillers(n)
         /\ log_levels = FillerLevels(n)
    /\ log_buffer = EmptyBuffer
    /\ log_lock = 0
    /\ pc = "idle"
    /\ call = Call("init", <<>>, WL_LOG_NONE, 0, <<>>)
    /\ sink = <<>>
    /\ stored = <<>>
    /\ diag = NoDiag
    /\ exclude_request = [n \in 1 .. Len(TagList) |-> "none"]
    /\ thread = [t \in Threads |-> Outside(0)]
    /\ emitted = <<>>

\* a tag of MAX_TAG_LENGTH characters or more is stored cut to 19; the model
\* stops handing one over once MaxTruncated copies of it are stored
RECURSIVE Copies(_, _)
Copies(tags, tag) ==
    IF tags = <<>> THEN 0
    ELSE (IF Head(tags) = tag THEN 1 ELSE 0) + Copies(Tail(tags), tag)

Admitted(tags, tag) ==
    Len(tag) >= MAX_TAG_LENGTH =>
        Copies(tags, strncpy_terminated(tag, MAX_TAG_LENGTH)) < MaxTruncated

Next ==
    \/ \E tag \in Tags :
         Admitted(excluded_tags, tag) /\ wl_log_exclude_tag(tag) /\ UNCHANGED <<exclude_request, thread, emitted>>
    \/ \E tag \in Tags : wl_log_include_tag(tag) /\ UNCHANGED <<exclude_request, thread, emitted>>
    \/ \E tag \in Tags, level \in Levels :
         Admitted(level_tags(log_levels), tag) /\ wl_log_set_level(tag, level)
    \/ \E level \in Severities, tag \in Tags, body \in Bodies, millis \in Millis :
         wl_log_print(level, tag, body, millis)
    \/ \E tag \in Tags, buffer \in Buffers, millis \in Millis :
         wl_log_buffer_hex(WL_LOG_INFO, tag, buffer, millis)
    \/ \E tag \in Tags, buffer \in Buffers, millis \in Millis :
         wl_log_dump(WL_LOG_INFO, tag, buffer, millis)

Spec == Init /\ [][Next]_vars

\* Spec with the exclude_tag / include_tag history of each tag recorded:
\* exclude_tag(tag) is "armed" when the tag has at most 19 characters and the
\* table has room or already holds it, "refused" otherwise
exclude_noted(tag) ==
    [exclude_request EXCEPT ![TagNumber(tag)] =
        IF Len(tag) < MAX_TAG_LENGTH
           /\ (excluded_tag_count < MAX_EXCLUDED_TAGS
               \/ \E i \in 1 .. excluded_tag_count : excluded_tags[i] = tag)
        THEN "armed" ELSE "refused"]

include_noted(tag) == [exclude_request EXCEPT ![TagNumber(tag)] = "none"]

NextHistory ==
    \/ \E tag \in Tags :
         /\ Admitted(excluded_tags, tag)
         /\ wl_log_exclude_tag(tag)
         /\ exclude_request' = exclude_noted(tag)
         /\ UNCHANGED <<thread, emitted>>
    \/ \E tag \in Tags :
         /\ wl_log_include_tag(tag)
         /\ exclude_request' = include_noted(tag)
         /\ UNCHANGED <<thread, emitted>>
    \/ \E tag \in Tags, level \in Levels :
         Admitted(level_tags(log_levels), tag) /\ wl_log_set_level(tag, level)
    \/ \E level \in Severities, tag \in Tags, body \in Bodies, millis \in Millis :
         wl_log_print(level, tag, body, millis)
    \/ \E tag \in Tags, buffer \in Buffers, millis \in Millis :
         wl_log_buffer_hex(WL_LOG_INFO, tag, buffer, millis)
    \/ \E tag \in Tags, buffer \in Buffers, millis \in Millis :
         wl_log_dump(WL_LOG_INFO, tag, buffer, millis)

\* the builds with the default overflow policy
InitHistory == Init /\ ~cfg.overwrite

SpecHistory == InitHistory /\ [][NextHistory]_vars

\* the ring buffer driven with arbitrary short messages
Bytes == {"a", "b"}

Messages == UNION {[1 .. n -> Bytes] : n \in 0 .. MaxMsgLen}

InitRing ==
    /\ cfg \in Configurations
    /\ excluded_tags = <<>>
    /\ log_levels = <<>>
    /\ log_buffer = EmptyBuffer
    /\ log_lock = 0
    /\ pc = "idle"
    /\ call = Call("init", <<>>, WL_LOG_NONE, 0, <<>>)
    /\ sink = <<>>
    /\ stored = <<>>
    /\ diag = NoDiag
    /\ exclude_request = [n \in 1 .. Len(TagList) |-> "none"]
    /\ thread = [t \in Threads |-> Outside(0)]
    /\ emitted = <<>>

NextRing ==
    \/ \E message \in Messages : output(message)
    \/ process_buffer_enter
    \/ process_buffer_loop
    \/ process_buffer_return

SpecRing == InitRing /\ [][NextRing]_vars

\* the thread inside wl_log_process_buffer keeps running
FairSpecRing ==
    SpecRing /\ WF_vars(process_buffer_loop) /\ WF_vars(process_buffer_return)

(* ------------------------------------------------------------------ *)
(* Vocabulary of the properties                                         *)
(* ------------------------------------------------------------------ *)

LogOps == {"log", "log_hex", "log_dump"}

\* T is one of the stored exclusion entries
InExclusionSet(tags, T) == \E i \in 1 .. Len(tags) : tags[i] = T

\* T has an entry in the override table
HasOverride(levels, T) == \E i \in 1 .. Len(levels) : levels[i].tag = T

\* the number of override entries stored for T
OverrideEntries(levels, T) == Cardinality({i \in 1 .. Len(levels) : levels[i].tag = T})

\* T's override (its first entry) if one exists, otherwise Verbose
EffectiveLevel(levels, T) ==
    IF HasOverride(levels, T)
    THEN LET first == CHOOSE i \in 1 .. Len(levels) :
                          /\ levels[i].tag = T
                          /\ \A j \in 1 .. i - 1 : levels[j].tag # T
         IN  levels[first].level
    ELSE WL_LOG_VERBOSE

PassesFilter(S, T) ==
    /\ ~InExclusionSet(excluded_tags, T)
    /\ S <= EffectiveLevel(log_levels, T)

ShortTag(T) == Len(T) < MAX_TAG_LENGTH

SynchronousSink == cfg.uart \/ cfg.stdout

UnreadCount(buf) == (buf.head - buf.tail + WL_LOG_BUFFER_SIZE) % WL_LOG_BUFFER_SIZE

\* the unread bytes, oldest first: the cells from tail up to head
Unread(buf) ==
    [i \in 1 .. UnreadCount(buf) |-> buf.data[(buf.tail + i - 1) % WL_LOG_BUFFER_SIZE]]

(* ------------------------------------------------------------------ *)
(* C1                                                                   *)
(* ------------------------------------------------------------------ *)

\* C1 (as claimed): a call log(S, T, msg) with T of at most 19 characters
\* delivers something to the output path (the sink, or the ring buffer in
\* ring-buffer-only mode) if and only if T is not in the exclusion set and
\* S <= the effective level of T.
C1_DeliveredIffPasses ==
    (call.op = "log" /\ ShortTag(call.tag)) =>
        ((sink # <<>> \/ stored # <<>>) <=> PassesFilter(call.level, call.tag))

\* C1 (amended): a call log(S, T, msg) with T of at most 19 characters writes
\* nothing and leaves the ring buffer alone when T is in the exclusion set or
\* S > the effective level of T; otherwise its formatted line goes to the
\* output path: whole to the synchronous sink, whole into the ring buffer
\* under overwrite-oldest, and under drop-newest only its leading
\* min(length, size - 1 - unread) characters (none when the buffer is full).
C1_FilterThenOutputPath ==
    [][ (call'.op = "log" /\ ShortTag(call'.tag)) =>
          LET line == final_message(call'.level, call'.tag, call'.text, call'.millis)
              room == WL_LOG_BUFFER_SIZE - 1 - UnreadCount(log_buffer)
          IN  IF ~PassesFilter(call'.level, call'.tag)
              THEN sink' = <<>> /\ stored' = <<>> /\ log_buffer' = log_buffer
              ELSE IF SynchronousSink
              THEN sink' = line /\ stored' = <<>> /\ log_buffer' = log_buffer
              ELSE IF cfg.overwrite
              THEN sink' = <<>> /\ stored' = line
              ELSE sink' = <<>> /\ stored' = Take(line, room)
                   /\ Unread(log_buffer') = Unread(log_buffer) \o Take(line, room)
      ]_vars

\* a line at exactly the override level of its tag has been delivered
C1_Witness ==
    /\ call.op = "log"
    /\ ShortTag(call.tag)
    /\ HasOverride(log_levels, call.tag)
    /\ call.level = EffectiveLevel(log_levels, call.tag)
    /\ sink = final_message(call.level, call.tag, call.text, call.millis)

(* ------------------------------------------------------------------ *)
(* C4                                                                   *)
(* ------------------------------------------------------------------ *)

NoEntryMeansDefault ==
    \A T \in Tags : ~HasOverride(log_levels, T) => get_tag_level(T) = WL_LOG_VERBOSE

\* C4 (as claimed, for the tags of at most 19 characters the data model
\* admits): for every tag T and severity L, right after set_level(T, L) the
\* effective level of T is L; a tag without an override has the global
\* default level, Verbose.
C4_SetLevelTakesEffect ==
    /\ (call.op = "set_level" /\ ShortTag(call.tag))
           => get_tag_level(call.tag) = call.level
    /\ NoEntryMeansDefault

\* C4 (amended): for every tag T of at most 19 characters and severity L,
\* right after set_level(T, L) the effective level of T is L, whatever the
\* other entries are, provided T already had an override or the table held
\* fewer than 10 entries; a tag with no entry in the table has the global
\* default level, Verbose.
C4_SetLevelTakesEffectWithRoom ==
    /\ [][ ( /\ call'.op = "set_level"
             /\ ShortTag(call'.tag)
             /\ \/ HasOverride(log_levels, call'.tag)
                \/ Len(log_levels) < MAX_LOG_LEVEL_TAGS )
           => get_tag_level_in(log_levels', call'.tag) = call'.level ]_vars
    /\ []NoEntryMeansDefault

\* set_level has replaced the level of a tag among other overrides
C4_Witness ==
    /\ call.op = "set_level"
    /\ ShortTag(call.tag)
    /\ Len(log_levels) >= 2
    /\ \E i \in 1 .. Len(log_levels) :
         log_levels[i].tag # call.tag /\ log_levels[i].level # call.level
    /\ call.level # WL_LOG_VERBOSE
    /\ get_tag_level(call.tag) = call.level

(* ------------------------------------------------------------------ *)
(* C5                                                                   *)
(* ------------------------------------------------------------------ *)

NoOutput == sink = <<>> /\ stored = <<>>

\* C5 (as claimed, for the tags of at most 19 characters the data model
\* admits): after exclude_tag(T) returns, every log, log_hex and log_dump call
\* for T produces no output until include_tag(T) is called.
C5_ExcludedTagIsSilent ==
    (call.op \in LogOps /\ ShortTag(call.tag) /\ exclude_request[TagNumber(call.tag)] # "none")
        => NoOutput

\* C5 (amended): after exclude_tag(T) returns, for T of at most 19 characters
\* and called while the exclusion set held fewer than 10 tags or already held
\* T, every log, log_hex and log_dump call for T at any severity produces no
\* output until include_tag(T) is called, even when T's effective level is
\* Verbose.
C5_TakenExclusionIsSilent ==
    (call.op \in LogOps /\ exclude_request[TagNumber(call.tag)] = "armed") => NoOutput

\* a log call for an excluded tag whose effective level is Verbose, in a build
\* where it would otherwise have been written
C5_Witness ==
    /\ call.op \in LogOps
    /\ exclude_request[TagNumber(call.tag)] = "armed"
    /\ get_tag_level(call.tag) = WL_LOG_VERBOSE
    /\ call.level <= WL_LOG_VERBOSE
    /\ NoOutput

(* ------------------------------------------------------------------ *)
(* C6                                                                   *)
(* ------------------------------------------------------------------ *)

RepeatedExclude ==
    /\ call.op = "exclude_tag"
    /\ call'.op = "exclude_tag"
    /\ call'.tag = call.tag

\* C6 (as claimed, for the tags of at most 19 characters the data model
\* admits): exclude_tag(T) called again right after exclude_tag(T) leaves the
\* size of the exclusion set as it was, and after set_level(T, L) the override
\* table holds exactly one entry for T.
C6_Idempotent ==
    /\ [][ (RepeatedExclude /\ ShortTag(call'.tag))
           => Len(excluded_tags') = Len(excluded_tags) ]_vars
    /\ []( (call.op = "set_level" /\ ShortTag(call.tag))
           => OverrideEntries(log_levels, call.tag) = 1 )

\* C6 (amended): for every tag T of at most 19 characters, exclude_tag(T)
\* called again right after exclude_tag(T) leaves the size of the exclusion
\* set as it was; set_level(T, L) leaves exactly one entry for T when T had
\* none and the table held fewer than 10 entries, leaves none when T had none
\* and the table was full, and when T already had an entry it adds none (the
\* table keeps its size and T its number of entries).
C6_IdempotentWithRoom ==
    [][ /\ (RepeatedExclude /\ ShortTag(call'.tag))
           => Len(excluded_tags') = Len(excluded_tags)
        /\ (call'.op = "set_level" /\ ShortTag(call'.tag))
           => IF HasOverride(log_levels, call'.tag)
              THEN /\ Len(log_levels') = Len(log_levels)
                   /\ OverrideEntries(log_levels', call'.tag)
                        = OverrideEntries(log_levels, call'.tag)
              ELSE IF Len(log_levels) < MAX_LOG_LEVEL_TAGS
              THEN OverrideEntries(log_levels', call'.tag) = 1
              ELSE OverrideEntries(log_levels', call'.tag) = 0
      ]_vars

\* set_level called for a tag that already had its entry: still one entry
C6_Witness ==
    /\ call.op = "set_level"
    /\ ShortTag(call.tag)
    /\ Len(log_levels) >= 2
    /\ OverrideEntries(log_levels, call.tag) = 1
    /\ \E T \in Tags : ShortTag(T) /\ InExclusionSet(excluded_tags, T)

(* ------------------------------------------------------------------ *)
(* C7                                                                   *)
(* ------------------------------------------------------------------ *)

\* C7: exclude_tag(T) for a tag T that is already in the exclusion set changes
\* nothing and reports no error diagnostic, also when the set holds 10 tags.
C7_DuplicateExcludeIsSilent ==
    [][ (call'.op = "exclude_tag" /\ InExclusionSet(excluded_tags, call'.tag))
        => (excluded_tags' = excluded_tags /\ diag' = NoDiag) ]_vars

(* ------------------------------------------------------------------ *)
(* C8                                                                   *)
(* ------------------------------------------------------------------ *)

\* C8: the exclusion set and the override table never hold more than 10
\* entries; exclude_tag or set_level for a new tag when its table is full
\* leaves the table unchanged, prints the capacity diagnostic and returns
\* (the guard free); set_level for a tag that has an override updates it
\* also when the table is full.
C8_BoundedTables ==
    /\ [](Len(excluded_tags) <= 10 /\ Len(log_levels) <= 10)
    /\ [][ /\ ( /\ call'.op = "exclude_tag"
                /\ ~InExclusionSet(excluded_tags, call'.tag)
                /\ Len(excluded_tags) = 10 )
              => /\ excluded_tags' = excluded_tags
                 /\ diag' = TagListFull
                 /\ pc' = "idle" /\ log_lock' = 0
           /\ ( /\ call'.op = "set_level"
                /\ ~HasOverride(log_levels, call'.tag)
                /\ Len(log_levels) = 10 )
              => /\ log_levels' = log_levels
                 /\ diag' = LevelsListFull
                 /\ pc' = "idle" /\ log_lock' = 0
           /\ ( /\ call'.op = "set_level"
                /\ HasOverride(log_levels, call'.tag)
                /\ Len(log_levels) = 10 )
              => /\ EffectiveLevel(log_levels', call'.tag) = call'.level
                 /\ Len(log_levels') = 10
                 /\ diag' = NoDiag
         ]_vars

\* exclude_tag for a new tag has met a full exclusion set
C8_Witness ==
    /\ call.op = "exclude_tag"
    /\ Len(excluded_tags) = 10
    /\ ~InExclusionSet(excluded_tags, call.tag)
    /\ diag = TagListFull
    /\ Len(log_levels) = 10

(* ------------------------------------------------------------------ *)
(* Ring buffer: C2, C3, C9, C10                                         *)
(* ------------------------------------------------------------------ *)

RingOnly == ~cfg.uart /\ ~cfg.stdout

\* a step of the while loop of wl_log_process_buffer
DrainStep == pc = "flush" /\ pc' = "flush"

\* a log_output call made for a log function
EnqueueStep == pc = "idle" /\ call'.op = "log_output"

\* the drain hands the oldest unread byte, and only it, to the sink
DrainYieldsOldest ==
    /\ sink' = Append(sink, Head(Unread(log_buffer)))
    /\ Unread(log_buffer') = Tail(Unread(log_buffer))

LastOf(s, n) == SubSeq(s, Len(s) - Min(Len(s), n) + 1, Len(s))

\* C2: in ring-buffer-only mode a flush_buffer call sends the unread bytes to
\* the external sink in enqueue order, each byte exactly once: every drained
\* byte is written to the sink, and none is put back into the ring buffer.
C2_DrainReachesSink ==
    [][ (RingOnly /\ DrainStep)
        => /\ sink' = Append(sink, log_buffer.data[log_buffer.tail])
           /\ stored' = <<>>
           /\ log_buffer'.head = log_buffer.head
           /\ log_buffer'.data = log_buffer.data ]_vars

\* C3: every flush_buffer call terminates, in every configuration, and when
\* it has returned the ring buffer is empty and the guard is released.
C3_FlushTerminates ==
    /\ (pc = "flush") ~> (pc = "idle")
    /\ []( (pc = "idle" /\ call.op = "flush_buffer")
           => (log_buffer.head = log_buffer.tail /\ log_lock = 0) )

\* C9: under drop-newest with buffer size N, enqueuing m bytes into a ring
\* buffer holding e unread bytes accepts exactly the leading min(m, N - 1 - e)
\* bytes, leaves tail and the queued bytes as they were, and a later drain
\* yields the queued bytes followed by the accepted prefix, oldest first.
C9_DropNewest ==
    [][ (RingOnly /\ ~cfg.overwrite)
        => /\ EnqueueStep
              => LET accepted == Take(call'.text,
                                      WL_LOG_BUFFER_SIZE - 1 - UnreadCount(log_buffer))
                 IN  /\ stored' = accepted
                     /\ log_buffer'.tail = log_buffer.tail
                     /\ Unread(log_buffer') = Unread(log_buffer) \o accepted
           /\ DrainStep => DrainYieldsOldest ]_vars

\* the enqueue half of C9 alone
C9_EnqueueHalf ==
    [][ (RingOnly /\ ~cfg.overwrite /\ EnqueueStep)
        => LET accepted == Take(call'.text,
                                WL_LOG_BUFFER_SIZE - 1 - UnreadCount(log_buffer))
           IN  /\ stored' = accepted
               /\ log_buffer'.tail = log_buffer.tail
               /\ Unread(log_buffer') = Unread(log_buffer) \o accepted ]_vars

\* C10: under overwrite-oldest no byte of an enqueue call is dropped: a byte
\* that finds the buffer full replaces the oldest unread byte, so the unread
\* bytes become the most recent N - 1 of the old ones followed by the message,
\* in order, and a later drain yields them oldest first.
C10_OverwriteOldest ==
    [][ (RingOnly /\ cfg.overwrite)
        => /\ EnqueueStep
              => /\ stored' = call'.text
                 /\ Unread(log_buffer')
                      = LastOf(Unread(log_buffer) \o call'.text, WL_LOG_BUFFER_SIZE - 1)
           /\ DrainStep => DrainYieldsOldest ]_vars

\* the enqueue half of C10 alone
C10_EnqueueHalf ==
    [][ (RingOnly /\ cfg.overwrite /\ EnqueueStep)
        => /\ stored' = call'.text
           /\ Unread(log_buffer')
                = LastOf(Unread(log_buffer) \o call'.text, WL_LOG_BUFFER_SIZE - 1) ]_vars

(* ------------------------------------------------------------------ *)
(* C11                                                                  *)
(* ------------------------------------------------------------------ *)

\* C11: a ring buffer of size N never holds more than N - 1 unread bytes under
\* drop-newest, and under overwrite-oldest it fills to its full capacity: an
\* enqueue of m bytes onto e unread bytes leaves min(e + m, N) unread bytes.
C11_Capacity ==
    [][ /\ (RingOnly /\ ~cfg.overwrite)
           => UnreadCount(log_buffer') <= WL_LOG_BUFFER_SIZE - 1
        /\ (RingOnly /\ cfg.overwrite /\ EnqueueStep)
           => UnreadCount(log_buffer')
                = Min(UnreadCount(log_buffer) + Len(call'.text), WL_LOG_BUFFER_SIZE)
      ]_vars

\* the drop-newest half of C11 alone
C11_DropNewestHalf ==
    (RingOnly /\ ~cfg.overwrite) => UnreadCount(log_buffer) <= WL_LOG_BUFFER_SIZE - 1

\* what the code keeps under overwrite-oldest: N - 1 unread bytes at most
C11_OverwriteKeeps ==
    [][ (RingOnly /\ cfg.overwrite /\ EnqueueStep)
        => UnreadCount(log_buffer')
             = Min(UnreadCount(log_buffer) + Len(call'.text), WL_LOG_BUFFER_SIZE - 1)
      ]_vars

(* ------------------------------------------------------------------ *)
(* Concurrent callers (WL_LOG_USE_MUTEX, the spinlock guard)            *)
(* ------------------------------------------------------------------ *)

\* most calls the threads make together
MaxCalls == 3

\* the calls made so far
CallsMade == thread[1].calls + thread[2].calls

\* the byte buffers the threads hand to wl_log_buffer_hex and wl_log_dump
ThreadBuffers == {<<171>>}

\* the builds the threads run on: a synchronous sink, and the ring buffer
\* alone with the default overflow policy
ThreadConfigurations == {c \in Configurations : ~c.uart /\ ~c.overwrite}

APP == <<"a", "p", "p">>

\* the tags the threads use
ThreadTags == {NET, APP}

\* the places where a function that took the guard returns: the end of each
\* function, and the early returns of wl_log_exclude_tag (the tag is already
\* there), wl_log_include_tag (the tag was found and removed) and
\* wl_log_set_level (the tag had an entry)
ExitPaths ==
    {"log_end", "exclude_duplicate", "exclude_end", "include_found", "include_end",
     "set_level_found", "set_level_end", "flush_end"}

\* the exits with the early return of wl_log_exclude_tag left without its unlock
ExitsButDuplicate == ExitPaths \ {"exclude_duplicate"}

\* the exits where LOG_MUTEX_UNLOCK precedes the return
UnlockedExits == ExitPaths

\* thread t is between LOG_MUTEX_LOCK and the return of its function
InGuardedBody(t) == thread[t].pc \in {"body", "shift", "strncpy"} \cup ExitPaths

\* the bytes of a char array up to its first NUL
RECURSIVE c_str(_)
c_str(bytes) ==
    IF bytes = <<>> \/ Head(bytes) = NUL THEN <<>> ELSE <<Head(bytes)>> \o c_str(Tail(bytes))

\* s followed by NULs up to n bytes
Pad(s, n) == s \o [k \in 1 .. n - Len(s) |-> NUL]

\* the string in dst when strncpy(dst, src, MAX_TAG_LENGTH) has copied k bytes
strncpy_partial(dst, src, k) ==
    c_str(Take(Pad(src, MAX_TAG_LENGTH), k) \o Drop(Pad(dst, MAX_TAG_LENGTH), k))

\* what an unguarded reader can find in dst while that strncpy runs
TornCopies(dst, src) ==
    {strncpy_partial(dst, src, k) : k \in 0 .. Min(MAX_TAG_LENGTH, Len(dst) + Len(src))}

\* the history flag covered of every thread, once the exclusion table is tags
Watch(th, tags) ==
    [t \in Threads |-> [th[t] EXCEPT !.covered = @ /\ InExclusionSet(tags, th[t].tag)]]

\* a log function that takes the guard before it tests the filter
enter_log_guarded(t, op, level, tag, messages) ==
    /\ thread[t].pc = "idle"
    /\ CallsMade < MaxCalls
    /\ log_lock = 0
    /\ log_lock' = 1
    /\ thread' = [thread EXCEPT ![t] =
           [pc |-> "is_tag_excluded", op |-> op, tag |-> tag, level |-> level,
            i |-> 0, todo |-> messages,
            covered |-> InExclusionSet(excluded_tags, tag), calls |-> @.calls + 1]]
    /\ UNCHANGED <<cfg, excluded_tags, log_levels, log_buffer, pc, call, sink,
                   stored, diag, exclude_request, emitted>>

\* wl_log_print / wl_log_buffer_hex / wl_log_dump, entry: the level half of the
\* filter.  No entry of log_levels ever moves, so the unguarded scan of
\* get_tag_level returns what an atomic scan at some moment of it returns.
enter_log(t, op, level, tag, messages) ==
    /\ thread[t].pc = "idle"
    /\ CallsMade < MaxCalls
    /\ thread' = [thread EXCEPT ![t] =
           IF level > get_tag_level(tag)
           THEN Outside(@.calls + 1)
           ELSE [pc |-> "is_tag_excluded", op |-> op, tag |-> tag, level |-> level,
                 i |-> 0, todo |-> messages,
                 covered |-> InExclusionSet(excluded_tags, tag), calls |-> @.calls + 1]]
    /\ UNCHANGED <<cfg, excluded_tags, log_levels, log_buffer, log_lock, pc, call, sink,
                   stored, diag, exclude_request, emitted>>

\* one iteration of the for loop of is_tag_excluded, run without the guard
is_tag_excluded_step(t) ==
    /\ thread[t].pc = "is_tag_excluded"
    /\ thread' = [thread EXCEPT ![t] =
           IF @.i >= excluded_tag_count
           THEN [@ EXCEPT !.pc = "LOG_MUTEX_LOCK"]
           ELSE IF strncmp(excluded_tags[@.i + 1], @.tag, MAX_TAG_LENGTH) = 0
           THEN Outside(@.calls)
           ELSE [@ EXCEPT !.i = @ + 1]]
    /\ UNCHANGED <<cfg, excluded_tags, log_levels, log_buffer, log_lock, pc, call, sink,
                   stored, diag, exclude_request, emitted>>

\* wl_log_exclude_tag, wl_log_include_tag, wl_log_set_level and
\* wl_log_process_buffer, entry: they start with LOG_MUTEX_LOCK
enter_call(t, op, tag, level) ==
    /\ thread[t].pc = "idle"
    /\ CallsMade < MaxCalls
    /\ thread' = [thread EXCEPT ![t] =
           [pc |-> "LOG_MUTEX_LOCK", op |-> op, tag |-> tag, level |-> level,
            i |-> 0, todo |-> <<>>, covered |-> FALSE, calls |-> @.calls + 1]]
    /\ UNCHANGED <<cfg, excluded_tags, log_levels, log_buffer, log_lock, pc, call, sink,
                   stored, diag, exclude_request, emitted>>

\* a lock that does not wait for the guard to be free
LOG_MUTEX_LOCK_no_wait(t) ==
    /\ thread[t].pc = "LOG_MUTEX_LOCK"
    /\ log_lock' = 1
    /\ thread' = [thread EXCEPT ![t].pc = "body"]
    /\ UNCHANGED <<cfg, excluded_tags, log_levels, log_buffer, pc, call, sink, stored, diag,
                   exclude_request, emitted>>

\* while (__sync_lock_test_and_set(&log_lock, 1)) {}: the iteration that finds 0
LOG_MUTEX_LOCK(t) ==
    /\ thread[t].pc = "LOG_MUTEX_LOCK"
    /\ log_lock = 0
    /\ log_lock' = 1
    /\ thread' = [thread EXCEPT ![t].pc = "body"]
    /\ UNCHANGED <<cfg, excluded_tags, log_levels, log_buffer, pc, call, sink, stored, diag,
                   exclude_request, emitted>>

\* the exit thread t has reached: __sync_lock_release(&log_lock) where the
\* code has LOG_MUTEX_UNLOCK there, and the return
LOG_MUTEX_UNLOCK(t) ==
    /\ thread[t].pc \in ExitPaths
    /\ log_lock' = IF thread[t].pc \in UnlockedExits THEN 0 ELSE log_lock
    /\ thread' = [thread EXCEPT ![t] = Outside(@.calls)]
    /\ UNCHANGED <<cfg, excluded_tags, log_levels, log_buffer, pc, call, sink, stored, diag,
                   exclude_request, emitted>>

\* the record emitted keeps of the log_output call thread t is about to make
Emission(t) ==
    [thread |-> t, call |-> thread[t].calls, op |-> thread[t].op, tag |-> thread[t].tag,
     covered |-> thread[t].covered, text |-> Head(thread[t].todo),
     last |-> Len(thread[t].todo) = 1]

\* the next log_output call of a log function, made under the guard
log_output_step(t) ==
    /\ thread[t].pc = "body"
    /\ thread[t].op \in LogOps
    /\ \E r \in {log_output(log_buffer, Head(thread[t].todo))} :
           /\ log_buffer' = r.buffer
           /\ sink' = sink \o r.sink
           /\ stored' = r.stored
    /\ emitted' = Append(emitted, Emission(t))
    /\ thread' = [thread EXCEPT ![t] =
           [@ EXCEPT !.todo = Tail(@),
                     !.pc = IF Len(thread[t].todo) = 1 THEN "log_end" ELSE "body"]]
    /\ UNCHANGED <<cfg, excluded_tags, log_levels, log_lock, pc, call, diag, exclude_request>>

\* wl_log_exclude_tag under the guard, up to its LOG_MUTEX_UNLOCK.  The new
\* entry is written before excluded_tag_count++ shows it to the readers.
exclude_tag_body(t) ==
    /\ thread[t].pc = "body"
    /\ thread[t].op = "exclude_tag"
    /\ \E r \in {exclude_tag(excluded_tags, thread[t].tag)} :
           /\ excluded_tags' = r.tags
           /\ diag' = r.diag
    /\ thread' = [thread EXCEPT ![t].pc =
           IF /\ excluded_tag_count < MAX_EXCLUDED_TAGS
              /\ find_tag(excluded_tags, thread[t].tag, 1) # 0
           THEN "exclude_duplicate" ELSE "exclude_end"]
    /\ UNCHANGED <<cfg, log_levels, log_buffer, log_lock, pc, call, sink, stored,
                   exclude_request, emitted>>

\* wl_log_set_level under the guard, up to its LOG_MUTEX_UNLOCK
set_level_body(t) ==
    /\ thread[t].pc = "body"
    /\ thread[t].op = "set_level"
    /\ \E r \in {set_level(log_levels, thread[t].tag, thread[t].level)} :
           /\ log_levels' = r.levels
           /\ diag' = r.diag
    /\ thread' = [thread EXCEPT ![t].pc =
           IF find_tag(level_tags(log_levels), thread[t].tag, 1) # 0
           THEN "set_level_found" ELSE "set_level_end"]
    /\ UNCHANGED <<cfg, excluded_tags, log_buffer, log_lock, pc, call, sink, stored,
                   exclude_request, emitted>>

\* wl_log_include_tag under the guard: the scan for the tag
include_tag_find(t) ==
    /\ thread[t].pc = "body"
    /\ thread[t].op = "include_tag"
    /\ \E i \in {find_tag(excluded_tags, thread[t].tag, 1)} :
           IF i = 0
           THEN /\ diag' = TagNotFound
                /\ thread' = [thread EXCEPT ![t].pc = "include_end"]
           ELSE /\ diag' = NoDiag
                /\ thread' = [thread EXCEPT ![t].pc = "shift", ![t].i = i]
    /\ UNCHANGED <<cfg, excluded_tags, log_levels, log_buffer, log_lock, pc, call, sink,
                   stored, exclude_request, emitted>>

\* wl_log_include_tag, the inner for loop at entry j = thread[t].i (counted
\* from 1): the strncpy over entry j starts, or the loop ends and
\* excluded_tag_count-- drops the last entry
include_tag_shift(t) ==
    /\ thread[t].pc = "shift"
    /\ LET j == thread[t].i
       IN  IF j < excluded_tag_count
           THEN \E torn \in TornCopies(excluded_tags[j], excluded_tags[j + 1]) :
                    /\ excluded_tags' = [excluded_tags EXCEPT ![j] = torn]
                    /\ thread' = Watch([thread EXCEPT ![t].pc = "strncpy"], excluded_tags')
           ELSE /\ excluded_tags' = SubSeq(excluded_tags, 1, excluded_tag_count - 1)
                /\ thread' = Watch([thread EXCEPT ![t].pc = "include_found"],
                                   excluded_tags')
    /\ UNCHANGED <<cfg, log_levels, log_buffer, log_lock, pc, call, sink, stored, diag,
                   exclude_request, emitted>>

\* wl_log_include_tag: the strncpy over entry j is complete
include_tag_copied(t) ==
    /\ thread[t].pc = "strncpy"
    /\ LET j == thread[t].i
       IN  /\ excluded_tags' = [excluded_tags EXCEPT ![j] = excluded_tags[j + 1]]
           /\ thread' = Watch([thread EXCEPT ![t].pc = "shift", ![t].i = j + 1],
                              excluded_tags')
    /\ UNCHANGED <<cfg, log_levels, log_buffer, log_lock, pc, call, sink, stored, diag,
                   exclude_request, emitted>>

\* wl_log_process_buffer under the guard: one test of the while condition,
\* with the loop body when it holds
process_buffer_step(t) ==
    /\ thread[t].pc = "body"
    /\ thread[t].op = "flush_buffer"
    /\ IF log_buffer.tail # log_buffer.head
       THEN /\ \E garbage \in StackGarbage :
                 \E r \in {log_output(log_buffer,
                                       string_at_ch(log_buffer.data[log_buffer.tail],
                                                    garbage))} :
                     /\ log_buffer' = [r.buffer EXCEPT
                                          !.tail = (r.buffer.tail + 1) % WL_LOG_BUFFER_SIZE]
                     /\ sink' = sink \o r.sink
                     /\ stored' = r.stored
            /\ UNCHANGED thread
       ELSE /\ thread' = [thread EXCEPT ![t].pc = "flush_end"]
            /\ UNCHANGED <<log_buffer, sink, stored>>
    /\ UNCHANGED <<cfg, excluded_tags, log_levels, log_lock, pc, call, diag,
                   exclude_request, emitted>>

\* the registry as the start-up code left it: empty, or both tags excluded
InitThreads ==
    /\ cfg \in ThreadConfigurations
    /\ excluded_tags \in {<<>>, <<NET, APP>>}
    /\ log_levels = <<>>
    /\ log_buffer = EmptyBuffer
    /\ log_lock = 0
    /\ pc = "idle"
    /\ call = Call("init", <<>>, WL_LOG_NONE, 0, <<>>)
    /\ sink = <<>>
    /\ stored = <<>>
    /\ diag = NoDiag
    /\ exclude_request = [n \in 1 .. Len(TagList) |-> "none"]
    /\ thread = [t \in Threads |-> Outside(0)]
    /\ emitted = <<>>

NextThreads ==
    \E t \in Threads :
        \/ \E tag \in ThreadTags, body \in Bodies, millis \in Millis :
             enter_log(t, "log", WL_LOG_INFO, tag,
                       print_messages(WL_LOG_INFO, tag, body, millis))
        \/ \E tag \in ThreadTags, buffer \in ThreadBuffers, millis \in Millis :
             enter_log(t, "log_hex", WL_LOG_INFO, tag, hex_messages(tag, buffer, millis))
        \/ \E tag \in ThreadTags, buffer \in ThreadBuffers, millis \in Millis :
             enter_log(t, "log_dump", WL_LOG_INFO, tag, dump_messages(tag, buffer, millis))
        \/ \E tag \in ThreadTags : enter_call(t, "exclude_tag", tag, WL_LOG_NONE)
        \/ \E tag \in ThreadTags : enter_call(t, "include_tag", tag, WL_LOG_NONE)
        \/ \E tag \in ThreadTags : enter_call(t, "set_level", tag, WL_LOG_WARN)
        \/ enter_call(t, "flush_buffer", <<>>, WL_LOG_NONE)
        \/ is_tag_excluded_step(t)
        \/ LOG_MUTEX_LOCK(t)
        \/ log_output_step(t)
        \/ exclude_tag_body(t)
        \/ set_level_body(t)
        \/ include_tag_find(t)
        \/ include_tag_shift(t)
        \/ include_tag_copied(t)
        \/ process_buffer_step(t)
        \/ LOG_MUTEX_UNLOCK(t)

SpecThreads == InitThreads /\ [][NextThreads]_vars

(* ------------------------------------------------------------------ *)
(* C12                                                                  *)
(* ------------------------------------------------------------------ *)

\* C12: with the guard enabled at most one thread at a time is inside the
\* guarded body of a log function, set_level, exclude_tag, include_tag or
\* flush_buffer; every exit path of these releases the guard, so the guard is
\* held exactly while some thread is inside a guarded body and is free
\* whenever none is.
C12_GuardExcludes ==
    /\ [](\A t1 \in Threads, t2 \in Threads :
            (InGuardedBody(t1) /\ InGuardedBody(t2)) => t1 = t2)
    /\ []((log_lock = 1) <=> (\E t \in Threads : InGuardedBody(t)))
    /\ [][\A t \in Threads :
            (InGuardedBody(t) /\ thread'[t].pc = "idle") => log_lock' = 0]_vars

\* a thread stands at the early return of exclude_tag, the guard still its
\* own, while the other thread spins in LOG_MUTEX_LOCK
C12_Witness ==
    /\ log_lock = 1
    /\ \E t1 \in Threads, t2 \in Threads :
         /\ thread[t1].pc = "exclude_duplicate"
         /\ thread[t2].pc = "LOG_MUTEX_LOCK"

(* ------------------------------------------------------------------ *)
(* C13                                                                  *)
(* ------------------------------------------------------------------ *)

SameCall(a, b) == a.thread = b.thread /\ a.call = b.call

\* the texts of the log_output calls that call c of thread t has made, in order
TextsOf(t, c) ==
    LET own == SelectSeq(emitted, LAMBDA e : e.thread = t /\ e.call = c)
    IN  [k \in 1 .. Len(own) |-> own[k].text]

RECURSIVE Flatten(_)
Flatten(texts) == IF texts = <<>> THEN <<>> ELSE Head(texts) \o Flatten(Tail(texts))

\* the messages a log call of the threads hands to log_output
ExpectedMessages(op, tag) ==
    LET body == CHOOSE b \in Bodies : TRUE
        millis == CHOOSE m \in Millis : TRUE
        buffer == CHOOSE b \in ThreadBuffers : TRUE
    IN  CASE op = "log" -> print_messages(WL_LOG_INFO, tag, body, millis)
          [] op = "log_hex" -> hex_messages(tag, buffer, millis)
          [] op = "log_dump" -> dump_messages(tag, buffer, millis)

\* thread t is still inside its call number c
InCall(t, c) == thread[t].calls = c /\ thread[t].pc # "idle"

\* C13: with the guard enabled the output of concurrent log, log_hex and
\* log_dump calls is never interleaved: the log_output calls of one call are
\* contiguous, they are the call's messages in order (all of them once the
\* call has returned: header, byte groups and final newline for log_hex and
\* log_dump), the bytes at the synchronous sink are their concatenation, and
\* in a ring-buffer-only build each of them appends to the unread bytes the
\* leading part of its message that the buffer has room for.
C13_NoInterleaving ==
    /\ [](\A p \in 1 .. Len(emitted), q \in 1 .. Len(emitted) :
            (p < q /\ SameCall(emitted[p], emitted[q]))
                => \A m \in p .. q : SameCall(emitted[m], emitted[p]))
    /\ [](\A p \in 1 .. Len(emitted) :
            LET e == emitted[p]
                texts == TextsOf(e.thread, e.call)
                whole == ExpectedMessages(e.op, e.tag)
            IN  /\ Len(texts) <= Len(whole)
                /\ texts = SubSeq(whole, 1, Len(texts))
                /\ ~InCall(e.thread, e.call) => texts = whole)
    /\ [](SynchronousSink
            => sink = Flatten([p \in 1 .. Len(emitted) |-> emitted[p].text]))
    /\ [][ (RingOnly /\ Len(emitted') = Len(emitted) + 1)
            => /\ stored' = Take(emitted'[Len(emitted')].text,
                                 WL_LOG_BUFFER_SIZE - 1 - UnreadCount(log_buffer))
               /\ Unread(log_buffer') = Unread(log_buffer) \o stored' ]_vars

\* a thread is half way through a log_hex call, after a whole call of the
\* other thread, which now spins in LOG_MUTEX_LOCK with its next log call
C13_Witness ==
    /\ SynchronousSink
    /\ \E t1 \in Threads, t2 \in Threads :
         /\ t1 # t2
         /\ thread[t1].pc = "body"
         /\ thread[t1].op = "log_hex"
         /\ Len(emitted) >= 2
         /\ emitted[Len(emitted)].thread = t1
         /\ emitted[1].thread = t2
         /\ thread[t2].pc = "LOG_MUTEX_LOCK"
         /\ thread[t2].op \in LogOps

(* ------------------------------------------------------------------ *)
(* C14                                                                  *)
(* ------------------------------------------------------------------ *)

\* C14: when an enqueue under drop-newest accepts fewer bytes than the message
\* holds, the loss is reported to the caller.  log_output returns void, so
\* the one report it could make is a diagnostic.
C14_PartialWriteReported ==
    [][ ( /\ RingOnly /\ ~cfg.overwrite
          /\ EnqueueStep
          /\ Len(stored') < Len(call'.text) )
        => diag' # NoDiag ]_vars

(* ------------------------------------------------------------------ *)
(* C15                                                                  *)
(* ------------------------------------------------------------------ *)

\* tags without its entry number i
WithoutEntry(tags, i) == SubSeq(tags, 1, i - 1) \o SubSeq(tags, i + 1, Len(tags))

C16_ExcludeThenIncludeRestores ==
    /\ [][ ( /\ call'.op = "exclude_tag"
             /\ ShortTag(call'.tag)
             /\ ~InExclusionSet(excluded_tags, call'.tag) )
           => LET restored == include_tag(excluded_tags', call'.tag).tags
              IN  /\ restored = excluded_tags
                  /\ log_levels' = log_levels
                  /\ \A U \in Tags :
                       /\ is_tag_excluded_in(restored, U)
                            = is_tag_excluded_in(excluded_tags, U)
                       /\ get_tag_level_in(log_levels', U)
                            = get_tag_level_in(log_levels, U)
         ]_vars
    /\ [][ call'.op = "include_tag" => log_levels' = log_levels ]_vars

\* exclude_tag has just added a 19-character tag behind other entries, with
\* overrides in the table
C16_Witness ==
    /\ call.op = "exclude_tag"
    /\ call.tag = SHORT19
    /\ diag = NoDiag
    /\ Len(excluded_tags) >= 2
    /\ excluded_tags[Len(excluded_tags)] = call.tag
    /\ Copies(excluded_tags, call.tag) = 1
    /\ log_levels # <<>>

(* ------------------------------------------------------------------ *)
(* C17                                                                  *)
(* ------------------------------------------------------------------ *)

\* C17: a log call whose tag is in the exclusion set from its entry to its
\* return (no call removes that tag meanwhile) emits nothing, whatever the
\* other threads do to other tags with wl_log_include_tag, wl_log_exclude_tag
\* and wl_log_set_level during the call: no emission is one of a call whose
\* tag stayed excluded.
C17_ExcludedNeverEmitted ==
    \A p \in 1 .. Len(emitted) : ~emitted[p].covered

(* ------------------------------------------------------------------ *)
(* C18                                                                  *)
(* ------------------------------------------------------------------ *)

\* thread t takes a step of its own (covered is history, written by Watch)
Moves(t) ==
    \/ thread'[t].pc # thread[t].pc
    \/ thread'[t].i # thread[t].i
    \/ thread'[t].todo # thread[t].todo
    \/ thread'[t].calls # thread[t].calls

\* thread t enters a log function: the level test, passed or not
EntersLog(t) ==
    /\ thread[t].pc = "idle"
    /\ thread'[t].calls # thread[t].calls
    /\ thread'[t].pc \in {"idle", "is_tag_excluded"}

\* C18: no step of a log, log_hex or log_dump call changes the exclusion set
\* or the override table; the filter of a log call (the level test and the
\* scan of the exclusion set), which is all a suppressed call consists of,
\* runs without acquiring the guard, writes nothing to the sink and leaves
\* the ring buffer as it was.
C18_LogLeavesStateAlone ==
    [][ \A t \in Threads :
          /\ (EntersLog(t) \/ (thread[t].op \in LogOps /\ Moves(t)))
               => /\ excluded_tags' = excluded_tags
                  /\ log_levels' = log_levels
          /\ (EntersLog(t) \/ (thread[t].pc = "is_tag_excluded" /\ Moves(t)))
               => /\ log_lock' = log_lock
                  /\ sink' = sink
                  /\ stored' = stored
                  /\ log_buffer' = log_buffer
                  /\ emitted' = emitted
                  /\ diag' = diag
      ]_vars

\* a log call is about to find its tag at index 1 of the exclusion set and
\* return, while the other thread holds the guard
C18_Witness ==
    \E t \in Threads, u \in Threads :
        /\ thread[t].pc = "is_tag_excluded"
        /\ thread[t].op \in LogOps
        /\ thread[t].i = 1
        /\ excluded_tag_count = 2
        /\ excluded_tags[2] = thread[t].tag
        /\ thread[u].pc = "body"
        /\ log_lock = 1

(* ------------------------------------------------------------------ *)
(* C19                                                                  *)
(* ------------------------------------------------------------------ *)

\* C19: exclude_tag and include_tag never change the override table and
\* set_level never changes the exclusion set; a tag may be in the exclusion
\* set and hold an override at once, and a log, log_hex or log_dump call for
\* a tag in the exclusion set produces no output whatever its override is.
C19_ExclusionAndOverrideIndependent ==
    /\ [][ call'.op \in {"exclude_tag", "include_tag"} => log_levels' = log_levels ]_vars
    /\ [][ call'.op = "set_level" => excluded_tags' = excluded_tags ]_vars
    /\ []( (call.op \in LogOps /\ InExclusionSet(excluded_tags, call.tag)) => NoOutput )

\* a log call, at a severity its override of Verbose admits, for a tag that
\* is in the exclusion set, has written nothing
C19_Witness ==
    /\ call.op \in LogOps
    /\ InExclusionSet(excluded_tags, call.tag)
    /\ HasOverride(log_levels, call.tag)
    /\ EffectiveLevel(log_levels, call.tag) = WL_LOG_VERBOSE
    /\ call.level <= EffectiveLevel(log_levels, call.tag)
    /\ NoOutput

(* ------------------------------------------------------------------ *)
(* C20                                                                  *)
(* ------------------------------------------------------------------ *)

\* C20: exclude_tag(T), include_tag(T) and set_level(T, L) affect only T:
\* for every tag U that differs from T as a string, is_tag_excluded(U) and
\* get_tag_level(U) are the same before and after the call, also when T has
\* 20 or more characters and U is its first 19 characters.
C20_OnlyTheNamedTagChanges ==
    [][ call'.op \in {"exclude_tag", "include_tag", "set_level"} =>
          \A U \in Tags \ {call'.tag} :
              /\ is_tag_excluded_in(excluded_tags', U) = is_tag_excluded_in(excluded_tags, U)
              /\ get_tag_level_in(log_levels', U) = get_tag_level_in(log_levels, U)
      ]_vars

(* ------------------------------------------------------------------ *)
(* All operations in every build                                        *)
(* ------------------------------------------------------------------ *)

\* the calls of Spec together with wl_log_process_buffer
NextRouting ==
    \/ Next
    \/ process_buffer_enter
    \/ process_buffer_loop
    \/ process_buffer_return

SpecRouting == Init /\ [][NextRouting]_vars

(* ------------------------------------------------------------------ *)
(* C21                                                                  *)
(* ------------------------------------------------------------------ *)

\* C21: the routing is fixed by the build: the configuration never changes;
\* with a synchronous sink (UART selected or stdout available) no operation
\* writes to the ring buffer, so head = tail in every reachable state; in
\* ring-buffer-only mode a log, log_hex or log_dump call writes nothing to
\* the sink, and what it delivers it enqueues.
C21_RoutingFixedByConfiguration ==
    /\ [][ cfg' = cfg ]_vars
    /\ [][ SynchronousSink => (log_buffer' = log_buffer /\ stored' = <<>>) ]_vars
    /\ []( SynchronousSink => log_buffer.head = log_buffer.tail )
    /\ []( (~SynchronousSink /\ call.op \in LogOps) => sink = <<>> )
    /\ [][ (~SynchronousSink /\ call'.op \in LogOps /\ call' # call)
             => Unread(log_buffer') = Drop(Unread(log_buffer) \o stored',
                                           Len(Unread(log_buffer) \o stored')
                                             - UnreadCount(log_buffer')) ]_vars

\* with stdout available a log call has written its output to the sink and
\* the ring buffer is still empty
C21_Witness ==
    /\ SynchronousSink
    /\ call.op \in LogOps
    /\ sink # <<>>
    /\ log_buffer.head = log_buffer.tail
    /\ log_buffer = EmptyBuffer

\* in ring-buffer-only mode a log call has enqueued characters and written
\* nothing to the sink
RingOnlyLogEnqueued ==
    /\ ~SynchronousSink
    /\ call.op \in LogOps
    /\ stored # <<>>
    /\ sink = <<>>
    /\ log_buffer.head # log_buffer.tail

(* ------------------------------------------------------------------ *)
(* C22                                                                  *)
(* ------------------------------------------------------------------ *)

\* head and tail are indices of data, and a step changes the unread cells,
\* those from tail up to but excluding head modulo the size, only by taking
\* the oldest away and by adding behind the newest what it stored
RingIndicesAndContent ==
    /\ []( /\ log_buffer.head \in 0 .. WL_LOG_BUFFER_SIZE - 1
           /\ log_buffer.tail \in 0 .. WL_LOG_BUFFER_SIZE - 1
           /\ DOMAIN log_buffer.data = 0 .. WL_LOG_BUFFER_SIZE - 1 )
    /\ [][ \E k \in 0 .. WL_LOG_BUFFER_SIZE :
             Unread(log_buffer') = Drop(Unread(log_buffer) \o stored', k) ]_vars

\* under drop-newest a log_output call leaves tail and the queued bytes as
\* they were and adds what it stored behind them
EnqueueKeepsQueued ==
    [][ (~cfg.overwrite /\ EnqueueStep)
          => /\ log_buffer'.tail = log_buffer.tail
             /\ Unread(log_buffer') = Unread(log_buffer) \o stored' ]_vars

\* under drop-newest tail changes only in wl_log_process_buffer
OnlyFlushChangesTail ==
    [][ (~cfg.overwrite /\ log_buffer'.tail # log_buffer.tail) => DrainStep ]_vars

\* under drop-newest head changes only in the log_output call of a log function
OnlyEnqueueChangesHead ==
    [][ (~cfg.overwrite /\ log_buffer'.head # log_buffer.head) => EnqueueStep ]_vars

\* C22: in every reachable state head and tail are in 0 .. N - 1 and the
\* unread bytes are exactly the cells from tail up to but excluding head,
\* modulo N; under drop-newest only flush_buffer changes tail and only an
\* enqueue changes head, so an enqueue never alters or discards a byte that
\* is already queued.
C22_RingIndices ==
    /\ RingIndicesAndContent
    /\ OnlyFlushChangesTail
    /\ OnlyEnqueueChangesHead
    /\ EnqueueKeepsQueued

(* ------------------------------------------------------------------ *)
(* wl_log_buffer_hex on its own                                         *)
(* ------------------------------------------------------------------ *)

\* the longest buffer handed to wl_log_buffer_hex
MaxHexLen == 2

\* byte values with one and with two significant hexadecimal digits
HexBytes == {10, 171, 205}

HexBuffers == UNION {[1 .. n -> HexBytes] : n \in 0 .. MaxHexLen}

HexMillis == {12}

BUFFER_TAG == <<"b", "u", "f", "f", "e", "r">>

HexTags == {BUFFER_TAG, NET}

\* wl_log_buffer_hex in every build, with the calls that change what the
\* filter lets through: "net" excluded and included again, "buffer" limited
\* to warnings
NextHex ==
    \/ \E level \in Severities, tag \in HexTags, buffer \in HexBuffers, millis \in HexMillis :
         wl_log_buffer_hex(level, tag, buffer, millis)
    \/ wl_log_exclude_tag(NET) /\ UNCHANGED <<exclude_request, thread, emitted>>
    \/ wl_log_include_tag(NET) /\ UNCHANGED <<exclude_request, thread, emitted>>
    \/ wl_log_set_level(BUFFER_TAG, WL_LOG_WARN)

SpecHex == InitRing /\ [][NextHex]_vars

(* ------------------------------------------------------------------ *)
(* C23                                                                  *)
(* ------------------------------------------------------------------ *)

\* the two uppercase hexadecimal digits of a byte and one space
TwoDigitsAndSpace(byte) ==
    <<HexDigits[(byte \div 16) + 1], HexDigits[(byte % 16) + 1], " ">>

\* "(<elapsed_ms>)[HEX][<tag>]: ", the bytes in input order, one newline
HexLine(tag, bytes, millis) ==
    <<"(">> \o Dec(millis) \o <<")", "[", "H", "E", "X", "]", "[">> \o tag \o <<"]", ":", " ">>
    \o Flatten([i \in 1 .. Len(bytes) |-> TwoDigitsAndSpace(bytes[i])])
    \o <<"\n">>

\* text is one line: its only newline is its last character
SingleLine(text) ==
    /\ text # <<>>
    /\ \A i \in 1 .. Len(text) : (text[i] = "\n") <=> (i = Len(text))

\* C23 (as claimed): for a log_hex call that is not suppressed the delivered
\* output, on the sink or in the ring buffer, is the single line
\* "(<elapsed_ms>)[HEX][<tag>]: " followed by two uppercase hexadecimal
\* digits and a space per input byte, in input order, and one newline.
C23_HexLineDelivered ==
    [][ (call'.op = "log_hex" /\ PassesFilter(call'.level, call'.tag))
          => /\ sink' \o stored' = HexLine(call'.tag, call'.text, call'.millis)
             /\ SingleLine(sink' \o stored')
      ]_vars

\* C23 (amended): a log_hex call that is not suppressed renders the single
\* line "(<elapsed_ms>)[HEX][<tag>]: ", two uppercase hexadecimal digits and
\* a space per input byte in input order, one newline, and hands it to the
\* output path: whole to the synchronous sink, whole into the ring buffer
\* under overwrite-oldest, and under drop-newest only its leading
\* min(length, size - 1 - unread) characters.
C23_HexLineByRoute ==
    [][ (call'.op = "log_hex" /\ PassesFilter(call'.level, call'.tag))
          => LET line == HexLine(call'.tag, call'.text, call'.millis)
                 room == WL_LOG_BUFFER_SIZE - 1 - UnreadCount(log_buffer)
             IN  /\ SingleLine(line)
                 /\ IF SynchronousSink
                    THEN sink' = line /\ stored' = <<>>
                    ELSE IF cfg.overwrite
                    THEN sink' = <<>> /\ stored' = line
                    ELSE sink' = <<>> /\ stored' = Take(line, room)
      ]_vars

\* log_hex of the bytes AB CD under the tag "buffer", 12 ms after the start,
\* with stdout available
C23_Witness ==
    /\ SynchronousSink
    /\ call.op = "log_hex"
    /\ call.tag = BUFFER_TAG
    /\ call.text = <<171, 205>>
    /\ call.millis = 12
    /\ sink = <<"(", "1", "2", ")", "[", "H", "E", "X", "]", "[", "b", "u", "f", "f", "e",
                "r", "]", ":", " ", "A", "B", " ", "C", "D", " ", "\n">>

====
